---- MODULE Spec2Model ----
(***************************************************************************)
(* A model of compare_pages.py (jochie/teletekst): the comparison of two   *)
(* snapshots of the Teletekst news pages, the matching of pages across     *)
(* them, and the post state that links a (title, page number) to a         *)
(* Mastodon status.                                                        *)
(*                                                                         *)
(* Python values are modelled as follows.                                  *)
(*   - a text is a sequence of one-character strings;                      *)
(*   - a dict is a function; an ordered dict that the code iterates over   *)
(*     (a normalized snapshot) is a sequence of entries in insertion order;*)
(*   - None is NoPage for a page number and NoId for a post id: both are   *)
(*     falsy in Python, as 0 is, and the code tests them with `not x`.     *)
(***************************************************************************)
EXTENDS Integers, Sequences, FiniteSets, TLC

VARIABLES
    \* compare_word_maps applied to two word maps
    map1, map2, comparison, cmp_pc,
    \* the post state (title -> page number as a string -> post id), and the
    \* last operation applied to it
    state, state_op,
    \* normalize_data applied to a snapshot
    data, normalized, norm_pc,
    \* parse_options: the command line, the files it names, how it ended
    argv, files, opts_pc,
    \* find_matching_page applied to a page and a normalized snapshot
    old_page, page_map, pagenr_match, match_pc,
    \* generate_diff applied to two texts: the texts, the two line lists it
    \* compares and the lines of the diff
    text1, text2, list1, list2, udiff, diff_pc,
    \* main: the options, the state file, the two snapshots as read and as
    \* normalized, the positions of the two loops, the requests sent to the
    \* Mastodon server, the last post id the server gave out, the three
    \* report lists, what the last loop step made of its page, and what the
    \* loop steps so far made of theirs
    pc, opts, state_file, loaded, prev_json, next_json, prev_list, next_list,
    pos, new_pos, calls, last_id, pages_del, pages_alt, pages_new, last, history

wordVars == <<map1, map2, comparison, cmp_pc>>
storeVars == <<state, state_op>>
normVars == <<data, normalized, norm_pc>>
optVars == <<argv, files, opts_pc>>
matchVars == <<old_page, page_map, pagenr_match, match_pc>>
diffVars == <<text1, text2, list1, list2, udiff, diff_pc>>

mainVars == <<pc, opts, state_file, loaded, prev_json, next_json, prev_list, next_list,
              pos, new_pos, calls, last_id, pages_del, pages_alt, pages_new, last,
              history>>

vars == <<wordVars, storeVars, normVars, optVars, matchVars, diffVars, mainVars>>

-----------------------------------------------------------------------------
\* Bounds of the model

\* the largest count of one word in a word map
MaxCount == 3

\* the largest post id of an initial post state; the server gives the new
\* statuses the ids after it
MaxId == 2

\* the largest number of entries of a snapshot given to normalize_data
MaxEntries == 4

\* the largest number of pages of a snapshot given to find_matching_page
MaxCandidates == 2

\* the largest number of characters of a text given to generate_diff
MaxTextLen == 4

-----------------------------------------------------------------------------
\* Texts and word maps

\* [\s\.] of the pattern in generate_word_map
IsSeparator(c) == c \in {" ", "\n", "."}

\* str.lower() on one character
LowerChar(c) ==
    CASE c = "A" -> "a"
      [] c = "B" -> "b"
      [] OTHER   -> c

\* str.lower() on a word
Lower(word) == [i \in 1..Len(word) |-> LowerChar(word[i])]

\* re.split(r"[\s\.]+", text): the pieces between maximal runs of
\* separators, the empty piece before a leading run and after a trailing
\* one included; the empty text splits into one empty piece.
RECURSIVE SplitFrom(_, _, _, _)
SplitFrom(text, i, cur, acc) ==
    IF i > Len(text) THEN Append(acc, cur)
    ELSE IF IsSeparator(text[i])
         THEN IF i > 1 /\ IsSeparator(text[i - 1])
              THEN SplitFrom(text, i + 1, cur, acc)
              ELSE SplitFrom(text, i + 1, <<>>, Append(acc, cur))
         ELSE SplitFrom(text, i + 1, Append(cur, text[i]), acc)

Split(text) == SplitFrom(text, 1, <<>>, <<>>)

\* generate_word_map: the count of each lowercased word
GenerateWordMap(text) ==
    LET words == Split(text)
        lowered == [i \in 1..Len(words) |-> Lower(words[i])]
    IN  [w \in {lowered[i] : i \in 1..Len(words)} |->
            Cardinality({i \in 1..Len(words) : lowered[i] = w})]

\* The sum of the values of a function with a finite domain.
RECURSIVE SumOf(_)
SumOf(f) ==
    IF DOMAIN f = {} THEN 0
    ELSE LET w == CHOOSE x \in DOMAIN f : TRUE
         IN  f[w] + SumOf([x \in DOMAIN f \ {w} |-> f[x]])

\* One loop of compare_word_maps: what the words of m1 add to `same`.
SameFrom(m1, m2) ==
    [word \in DOMAIN m1 |->
        IF word \notin DOMAIN m2 THEN 0
        ELSE IF m1[word] = m2[word] THEN m1[word]
        ELSE IF m1[word] < m2[word] THEN m1[word]
        ELSE m2[word]]

\* The loop with the slip of adding a word's count to `same` also when the
\* other map does not have the word.
SameFromAbsentCounts(m1, m2) ==
    [word \in DOMAIN m1 |->
        IF word \notin DOMAIN m2 THEN m1[word]
        ELSE IF m1[word] < m2[word] THEN m1[word]
        ELSE m2[word]]

\* compare_word_maps with the slip above
CompareWordMapsAbsentCounts(m1, m2) ==
    LET total == SumOf(m1) + SumOf(m2)
        same  == SumOf(SameFromAbsentCounts(m1, m2)) + SumOf(SameFromAbsentCounts(m2, m1))
    IN  [match |-> (same * 100) \div total >= 90, same |-> same, total |-> total]

\* compare_word_maps: (same * 100 / total >= 90, same, total).  The code
\* divides in floating point; for an integer bound, x / t >= 90 exactly
\* when floor(x / t) >= 90.
CompareWordMaps(m1, m2) ==
    LET total == SumOf(m1) + SumOf(m2)
        same  == SumOf(SameFrom(m1, m2)) + SumOf(SameFrom(m2, m1))
    IN  [match |-> (same * 100) \div total >= 90, same |-> same, total |-> total]

-----------------------------------------------------------------------------
\* compare_word_maps on bounded word maps

\* The words of the word maps that are compared.
Words == {<<"a">>, <<"b">>, <<"c">>}

\* The word maps generate_word_map can return over Words: every text splits
\* into at least one piece, so no map is empty, and every count is >= 1.
WordMaps ==
    UNION {[ws -> 1..MaxCount] : ws \in (SUBSET Words) \ {{}}}

NoComparison == [match |-> FALSE, same |-> 0, total |-> 0]

WordsInit ==
    /\ map1 \in WordMaps
    /\ map2 \in WordMaps
    /\ comparison = NoComparison
    /\ cmp_pc = "call"

Compare ==
    /\ cmp_pc = "call"
    /\ comparison' = CompareWordMaps(map1, map2)
    /\ cmp_pc' = "returned"
    /\ UNCHANGED <<map1, map2>>

WordsNext == Compare /\ UNCHANGED <<storeVars, normVars, optVars, matchVars, diffVars, mainVars>>

WordsIdle ==
    /\ map1 = <<>>
    /\ map2 = <<>>
    /\ comparison = NoComparison
    /\ cmp_pc = "idle"

Min(x, y) == IF x < y THEN x ELSE y

\* The closed forms of the claim, computed apart from compare_word_maps.
RECURSIVE SumCounts(_, _)
SumCounts(m, ws) ==
    IF ws = {} THEN 0
    ELSE LET w == CHOOSE x \in ws : TRUE
         IN  m[w] + SumCounts(m, ws \ {w})

RECURSIVE SumMin(_, _, _)
SumMin(m1, m2, ws) ==
    IF ws = {} THEN 0
    ELSE LET w == CHOOSE x \in ws : TRUE
         IN  Min(m1[w], m2[w]) + SumMin(m1, m2, ws \ {w})

\* C10: compare_word_maps returns total = the counts of both maps added up,
\* same = twice the sum over the shared words of the smaller count, and a
\* match exactly when same * 100 / total >= 90; identical maps give
\* same = total, disjoint maps give same = 0 and no match, and swapping the
\* maps gives the same result.
C10_CompareWordMaps ==
    cmp_pc = "returned" =>
        LET shared == DOMAIN map1 \cap DOMAIN map2
        IN  /\ comparison.total = SumCounts(map1, DOMAIN map1) + SumCounts(map2, DOMAIN map2)
            /\ comparison.same = 2 * SumMin(map1, map2, shared)
            /\ comparison.match = (comparison.same * 100 >= 90 * comparison.total)
            /\ (map1 = map2 => comparison.same = comparison.total /\ comparison.match)
            /\ (shared = {} => comparison.same = 0 /\ ~comparison.match)
            /\ CompareWordMaps(map2, map1) = comparison

\* {a:2, b:1} compared with itself: same = 6, total = 6.
C10_Witness ==
    /\ cmp_pc = "returned"
    /\ map1 = (<<"a">> :> 2 @@ <<"b">> :> 1)
    /\ map2 = map1
    /\ comparison = [match |-> TRUE, same |-> 6, total |-> 6]

-----------------------------------------------------------------------------
\* The post state: get_state, clear_state, set_state

\* The titles and page numbers of the modelled pages.
Titles == {"Weer", "Sport", "Kort nieuws binnenland"}

PageNrs == {101, 102}

\* None, as a post id
NoId == 0

\* str(pagenr): the key of the inner mapping
Str(pagenr) == ToString(pagenr)

\* f without the key k (del f[k])
Without(f, k) == [x \in DOMAIN f \ {k} |-> f[x]]

\* f with f[k] = v, k added when it is not a key
With(f, k, v) == [x \in DOMAIN f \cup {k} |-> IF x = k THEN v ELSE f[x]]

\* get_state
GetState(st, title, pagenr) ==
    LET key == Str(pagenr)
    IN  IF title \in DOMAIN st
        THEN IF key \in DOMAIN st[title] THEN st[title][key] ELSE NoId
        ELSE NoId

\* clear_state that deletes the title with its other page numbers
ClearStateWholeTitle(st, title, pagenr) ==
    IF title \in DOMAIN st THEN Without(st, title) ELSE st

\* clear_state that leaves the title in place when its last page number goes
ClearStateKeepsEmptyTitle(st, title, pagenr) ==
    LET key == Str(pagenr)
    IN  IF title \in DOMAIN st /\ key \in DOMAIN st[title]
        THEN With(st, title, Without(st[title], key))
        ELSE st

\* clear_state
ClearState(st, title, pagenr) ==
    LET key == Str(pagenr)
    IN  IF title \in DOMAIN st
        THEN IF key \in DOMAIN st[title]
             THEN LET inner == Without(st[title], key)
                  IN  IF Cardinality(DOMAIN inner) = 0
                      THEN Without(st, title)
                      ELSE With(st, title, inner)
             ELSE st
        ELSE st

\* set_state
SetState(st, title, pagenr, post_id) ==
    LET key == Str(pagenr)
        inner == IF title \notin DOMAIN st THEN <<>> ELSE st[title]
    IN  With(st, title, With(inner, key, post_id))

\* The empty dict
EmptyDict == <<>>

\* The post states a state file written by save_post_state can hold over the
\* modelled titles and page numbers: no inner mapping is empty.
InnerMaps(ids) ==
    UNION {[ks -> ids] : ks \in (SUBSET {Str(n) : n \in PageNrs}) \ {{}}}

PostStates(titles, ids) ==
    UNION {[ts -> InnerMaps(ids)] : ts \in SUBSET titles}

StoreTitles == {"Weer", "Sport"}

NoOp == [op |-> "none", title |-> "", pagenr |-> 0, post_id |-> NoId, before |-> EmptyDict]

StoreInit ==
    /\ state \in PostStates(StoreTitles, 1..MaxId)
    /\ state_op = NoOp

\* set_state(state, title, pagenr, post_id)
DoSetState(title, pagenr, post_id) ==
    /\ state' = SetState(state, title, pagenr, post_id)
    /\ state_op' = [op |-> "set", title |-> title, pagenr |-> pagenr,
                    post_id |-> post_id, before |-> state]
    /\ UNCHANGED <<wordVars, normVars, optVars, matchVars, diffVars, mainVars>>

\* clear_state(state, title, pagenr)
DoClearState(title, pagenr) ==
    /\ state' = ClearState(state, title, pagenr)
    /\ state_op' = [op |-> "clear", title |-> title, pagenr |-> pagenr,
                    post_id |-> NoId, before |-> state]
    /\ UNCHANGED <<wordVars, normVars, optVars, matchVars, diffVars, mainVars>>

StoreNext ==
    \/ \E t \in StoreTitles, n \in PageNrs, id \in 1..MaxId : DoSetState(t, n, id)
    \/ \E t \in StoreTitles, n \in PageNrs : DoClearState(t, n)

StoreIdle ==
    /\ state = EmptyDict
    /\ state_op = NoOp

\* Whether the state has an entry for (title, pagenr)
HasEntry(st, title, pagenr) ==
    title \in DOMAIN st /\ Str(pagenr) \in DOMAIN st[title]

\* C8: get after set(title, pagenr, id) returns id; get after a following
\* clear(title, pagenr) returns None; clear on a (title, pagenr) without an
\* entry leaves the whole state as it was.
C8_StoreRoundTrip ==
    /\ state_op.op = "set" =>
          GetState(state, state_op.title, state_op.pagenr) = state_op.post_id
    /\ state_op.op = "clear" =>
          /\ GetState(state, state_op.title, state_op.pagenr) = NoId
          /\ ~HasEntry(state_op.before, state_op.title, state_op.pagenr) =>
                state = state_op.before

\* A clear that follows a set of the same (title, pagenr), with another
\* page number left under the title.
C8_Witness ==
    /\ state_op.op = "clear"
    /\ state_op.before = ("Weer" :> ("101" :> 1 @@ "102" :> 2))
    /\ state_op.title = "Weer"
    /\ state_op.pagenr = 101
    /\ state = ("Weer" :> ("102" :> 2))

\* C13: from a state in which no title maps to an empty inner mapping, no
\* sequence of set_state and clear_state leads to a state in which one does.
\* clear_state removes the title exactly when the entry it clears was the
\* last one under that title, and every entry of another title or another
\* page number is left as it was.
C13_NoEmptyInnerMapping ==
    /\ \A t \in DOMAIN state : DOMAIN state[t] # {}
    /\ state_op.op = "clear" =>
          LET before == state_op.before
              title == state_op.title
              key == Str(state_op.pagenr)
          IN  /\ (title \in DOMAIN before /\ title \notin DOMAIN state) <=>
                    (title \in DOMAIN before /\ DOMAIN before[title] = {key})
              /\ DOMAIN state \subseteq DOMAIN before
              /\ \A t \in DOMAIN before : \A k \in DOMAIN before[t] :
                    (t # title \/ k # key) =>
                        /\ t \in DOMAIN state
                        /\ k \in DOMAIN state[t]
                        /\ state[t][k] = before[t][k]

\* A clear of the last entry under a title, with another title in the state.
C13_Witness ==
    /\ state_op.op = "clear"
    /\ state_op.before = ("Weer" :> ("101" :> 1) @@ "Sport" :> ("102" :> 2))
    /\ state_op.title = "Weer"
    /\ state_op.pagenr = 101
    /\ state = ("Sport" :> ("102" :> 2))

-----------------------------------------------------------------------------
\* normalize_data

\* An ordered dict is a sequence of [key, value] pairs in insertion order.
\* Whether k is a key of the dict
HasKey(d, k) == \E i \in 1..Len(d) : d[i].key = k

\* d[k], for a key k of d
Lookup(d, k) == d[CHOOSE i \in 1..Len(d) : d[i].key = k].value

\* d[k] = v: a key that is there keeps its place, a new key goes last
DictSet(d, k, v) ==
    IF HasKey(d, k)
    THEN [i \in 1..Len(d) |-> IF d[i].key = k THEN [key |-> k, value |-> v] ELSE d[i]]
    ELSE Append(d, [key |-> k, value |-> v])

\* del d[k], for a key k of d
DictDel(d, k) == SelectSeq(d, LAMBDA e : e.key # k)

\* "\n".join(lines)
RECURSIVE JoinLines(_)
JoinLines(lines) ==
    IF Len(lines) = 0 THEN <<>>
    ELSE IF Len(lines) = 1 THEN lines[1]
    ELSE lines[1] \o <<"\n">> \o JoinLines(Tail(lines))

\* The entries of every index page, in the order the two loops visit them.
RECURSIVE Flatten(_)
Flatten(d) ==
    IF Len(d) = 0 THEN <<>> ELSE d[1] \o Flatten(Tail(d))

\* The body of the inner loop for one entry, without the removal of the entry
\* kept before for the title.
NormalizeEntryKeepsBoth(acc, entry) ==
    IF acc.error THEN acc
    ELSE
    LET title == entry.title
        pagenr == entry.pagenr
        page == [title |-> title, text |-> JoinLines(entry.lines), raw |-> entry.raw]
    IN  IF HasKey(acc.seen, title) /\ Lookup(acc.seen, title) < pagenr
        THEN acc
        ELSE [result |-> DictSet(acc.result, pagenr, page),
              seen |-> DictSet(acc.seen, title, pagenr),
              error |-> FALSE]

\* The body of the inner loop with the comparison of the page numbers turned
\* around.
NormalizeEntryKeepsHighest(acc, entry) ==
    IF acc.error THEN acc
    ELSE
    LET title == entry.title
        pagenr == entry.pagenr
        page == [title |-> title, text |-> JoinLines(entry.lines), raw |-> entry.raw]
        dupe == HasKey(acc.seen, title)
    IN  IF dupe /\ Lookup(acc.seen, title) > pagenr
        THEN acc
        ELSE IF dupe /\ ~HasKey(acc.result, Lookup(acc.seen, title))
        THEN [acc EXCEPT !.error = TRUE]
        ELSE
        LET result1 == IF dupe THEN DictDel(acc.result, Lookup(acc.seen, title)) ELSE acc.result
            seen1 == IF dupe THEN DictDel(acc.seen, title) ELSE acc.seen
        IN  [result |-> DictSet(result1, pagenr, page),
             seen |-> DictSet(seen1, title, pagenr),
             error |-> FALSE]

\* The body of the inner loop of normalize_data for one entry.  error: the
\* KeyError of `del result[seen[title]]` when another title has taken, and
\* lost, that page number in between; the function then returns nothing.
NormalizeEntry(acc, entry) ==
    IF acc.error THEN acc
    ELSE
    LET title == entry.title
        pagenr == entry.pagenr
        page == [title |-> title, text |-> JoinLines(entry.lines), raw |-> entry.raw]
        dupe == HasKey(acc.seen, title)
    IN  IF dupe /\ Lookup(acc.seen, title) < pagenr
        THEN acc
        ELSE IF dupe /\ ~HasKey(acc.result, Lookup(acc.seen, title))
        THEN [acc EXCEPT !.error = TRUE]
        ELSE
        LET result1 == IF dupe THEN DictDel(acc.result, Lookup(acc.seen, title)) ELSE acc.result
            seen1 == IF dupe THEN DictDel(acc.seen, title) ELSE acc.seen
        IN  [result |-> DictSet(result1, pagenr, page),
             seen |-> DictSet(seen1, title, pagenr),
             error |-> FALSE]

RECURSIVE NormalizeFrom(_, _)
NormalizeFrom(acc, entries) ==
    IF Len(entries) = 0 THEN acc
    ELSE NormalizeFrom(NormalizeEntry(acc, entries[1]), Tail(entries))

\* normalize_data: result is the returned dict (page number -> page), in
\* insertion order; error is TRUE when the function raised instead.
NormalizeData(d) ==
    NormalizeFrom([result |-> <<>>, seen |-> <<>>, error |-> FALSE], Flatten(d))

\* The lines of the modelled pages
LinesA == << <<"a", " ", "b">>, <<"c">> >>

\* The entries of the snapshots given to normalize_data: walk_pages.py writes
\* [title, pagenr, lines, raw].
NormEntries ==
    [title : {"Weer", "Sport"}, pagenr : {101, 102, 103}, lines : {LinesA}, raw : {"<pre>"}]

NoResult == [result |-> <<>>, seen |-> <<>>, error |-> FALSE]

\* A snapshot of at most MaxEntries entries, all under one index page or the
\* first of them under an index page of its own.
NormInit ==
    /\ \E n \in 0..MaxEntries : \E es \in [1..n -> NormEntries] : \E k \in {1, n} :
          data = IF n = 0 THEN <<>>
                 ELSE IF k = n THEN <<es>>
                 ELSE <<SubSeq(es, 1, k), SubSeq(es, k + 1, n)>>
    /\ normalized = NoResult
    /\ norm_pc = "call"

Normalize ==
    /\ norm_pc = "call"
    /\ normalized' = NormalizeData(data)
    /\ norm_pc' = IF normalized'.error THEN "raised" ELSE "returned"
    /\ UNCHANGED data

NormNext == Normalize /\ UNCHANGED <<wordVars, storeVars, optVars, matchVars, diffVars, mainVars>>

NormIdle ==
    /\ data = <<>>
    /\ normalized = NoResult
    /\ norm_pc = "idle"

\* The page numbers under which a title occurs in a snapshot
PageNrsOf(d, title) ==
    LET es == Flatten(d)
    IN  {es[i].pagenr : i \in {j \in 1..Len(es) : es[j].title = title}}

TitlesOf(d) ==
    LET es == Flatten(d)
    IN  {es[i].title : i \in 1..Len(es)}

\* Whether no page number occurs under two titles in a snapshot
OneTitlePerPageNr(d) ==
    LET es == Flatten(d)
    IN  \A i, j \in 1..Len(es) : es[i].pagenr = es[j].pagenr => es[i].title = es[j].title

\* C6: no two entries of the mapping normalize_data returns have the same
\* title, whatever titles and page numbers the snapshot repeats.
C6_NoTwoEntriesShareTitle ==
    norm_pc = "returned" =>
        \A i, j \in 1..Len(normalized.result) :
            normalized.result[i].value.title = normalized.result[j].value.title => i = j

\* A snapshot that repeats a title and a page number, normalized.
C6_Witness ==
    /\ norm_pc = "returned"
    /\ Len(Flatten(data)) = 3
    /\ Flatten(data)[1].title = "Weer" /\ Flatten(data)[1].pagenr = 102
    /\ Flatten(data)[2].title = "Sport" /\ Flatten(data)[2].pagenr = 102
    /\ Flatten(data)[3].title = "Weer" /\ Flatten(data)[3].pagenr = 101
    /\ Len(normalized.result) = 1

\* C7, as claimed: every title of the snapshot has an entry in the result,
\* under the smallest page number the title occurs with.
C7_EveryTitleAtSmallest ==
    norm_pc = "returned" =>
        \A t \in TitlesOf(data) :
            \E i \in 1..Len(normalized.result) :
                /\ normalized.result[i].value.title = t
                /\ \A n \in PageNrsOf(data, t) : normalized.result[i].key <= n

\* C7, amended: the same, for the snapshots in which no page number occurs
\* under two titles; normalize_data then returns.
C7_EveryTitleAtSmallestDistinct ==
    (norm_pc # "call" /\ OneTitlePerPageNr(data)) =>
        /\ norm_pc = "returned"
        /\ \A t \in TitlesOf(data) :
            \E i \in 1..Len(normalized.result) :
                /\ normalized.result[i].value.title = t
                /\ normalized.result[i].key \in PageNrsOf(data, t)
                /\ \A n \in PageNrsOf(data, t) : normalized.result[i].key <= n

\* A title first seen under the higher page number, then under the lower.
C7_Witness ==
    /\ norm_pc = "returned"
    /\ OneTitlePerPageNr(data)
    /\ Len(Flatten(data)) = 2
    /\ Flatten(data)[1].title = "Weer" /\ Flatten(data)[1].pagenr = 102
    /\ Flatten(data)[2].title = "Weer" /\ Flatten(data)[2].pagenr = 101
    /\ Len(normalized.result) = 1
    /\ normalized.result[1].key = 101

-----------------------------------------------------------------------------
\* parse_options

\* argv: which options the command line gives (token: "none", "literal" for
\* a token given as such, "@file" for one to be read from a file).
\* files: whether the compare file exists, whether the token file can be
\* read, and whether parse_options has unlinked the compare file.
Argvs ==
    [state : BOOLEAN, compare : BOOLEAN, prev : BOOLEAN, next : BOOLEAN,
     post : BOOLEAN, server : BOOLEAN, token : {"none", "literal", "@file"}]

OptInit ==
    /\ argv \in Argvs
    /\ files \in [compare : BOOLEAN, token : BOOLEAN, unlinked : {FALSE}]
    /\ opts_pc = "call"

\* The rest of parse_options after the compare file: the checks of --post.
PostChecks(av, fs) ==
    IF av.post
    THEN IF ~av.server \/ av.token = "none" THEN "exit1"
         ELSE IF av.token = "@file" /\ ~fs.token THEN "exit1"
         ELSE "returned"
    ELSE "returned"

\* parse_options: how it ends.  "exit2" is argparse refusing a command line
\* without the required --state.
ParseOptionsEnd(av, fs) ==
    IF ~av.state THEN "exit2"
    ELSE IF av.compare
         THEN IF ~fs.compare THEN "exit0" ELSE PostChecks(av, fs)
         ELSE IF ~av.prev \/ ~av.next THEN "exit1" ELSE PostChecks(av, fs)

\* parse_options: the files it leaves.  os.unlink(opts.compare) follows the
\* reading of the compare file and comes before the checks of --post.
ParseOptionsFiles(av, fs) ==
    IF av.state /\ av.compare /\ fs.compare
    THEN [fs EXCEPT !.compare = FALSE, !.unlinked = TRUE]
    ELSE fs

ParseOptions ==
    /\ opts_pc = "call"
    /\ opts_pc' = ParseOptionsEnd(argv, files)
    /\ files' = ParseOptionsFiles(argv, files)
    /\ UNCHANGED argv

OptNext == ParseOptions /\ UNCHANGED <<wordVars, storeVars, normVars, matchVars, diffVars, mainVars>>

OptIdle ==
    /\ argv = <<>>
    /\ files = <<>>
    /\ opts_pc = "idle"

\* C9: when parse_options exits with a non-zero status, no I/O side effect
\* has occurred: the compare file has not been deleted.
C9_NoSideEffectBeforeErrorExit ==
    opts_pc \in {"exit1", "exit2"} => ~files.unlinked

-----------------------------------------------------------------------------
\* find_matching_page

\* None, as a page number
NoPage == 0

\* re.match(r"Kort nieuws (binnen|buiten)land", title), on the modelled titles
IsKortNieuws(title) == title \in {"Kort nieuws binnenland", "Kort nieuws buitenland"}

\* The loop of find_matching_page from candidate i on.  map1 is generated
\* once, at the first candidate that needs it; it is never empty.
RECURSIVE FindMatchingFrom(_, _, _)
FindMatchingFrom(pagedata, pmap, i) ==
    IF i > Len(pmap) THEN NoPage
    ELSE IF pmap[i].value.title = pagedata.title /\ ~IsKortNieuws(pagedata.title)
         THEN pmap[i].key
         ELSE IF CompareWordMaps(GenerateWordMap(pagedata.text),
                                 GenerateWordMap(pmap[i].value.text)).match
              THEN pmap[i].key
              ELSE FindMatchingFrom(pagedata, pmap, i + 1)

\* find_matching_page that goes through the candidates from the last one
FindMatchingPageFromLast(pagedata, pmap) ==
    FindMatchingFrom(pagedata, [i \in 1..Len(pmap) |-> pmap[Len(pmap) + 1 - i]], 1)

\* find_matching_page
FindMatchingPage(pagedata, pmap) == FindMatchingFrom(pagedata, pmap, 1)

\* The texts of the modelled pages, as the lines walk_pages.py stores.  Ten
\* words; the same words in another case, with other separators and on two
\* lines (100%); nine of them (18 of 19, 94%); eight of them (16 of 18,
\* 88%); other words (0%).
LinesTen == << <<"a", " ", "a", " ", "a", " ", "a", " ", "a", " ",
                "a", " ", "a", " ", "a", " ", "a", " ", "b">> >>

LinesTenAlt == << <<"A", " ", "a", ".", " ", "a", " ", "a", " ", "a">>,
                  <<"a", " ", "a", " ", "a", " ", "a", " ", "B">> >>

LinesNine == << <<"a", " ", "a", " ", "a", " ", "a", " ", "a", " ",
                 "a", " ", "a", " ", "a", " ", "a">> >>

LinesEight == << <<"a", " ", "a", " ", "a", " ", "a", " ", "a", " ",
                  "a", " ", "a", " ", "a">> >>

LinesOther == << <<"c", " ", "c">> >>

TextTen == JoinLines(LinesTen)

TextTenAlt == JoinLines(LinesTenAlt)

TextNine == JoinLines(LinesNine)

TextEight == JoinLines(LinesEight)

TextOther == JoinLines(LinesOther)

MatchTexts == {TextTen, TextTenAlt, TextNine, TextEight, TextOther}

\* The one-to-one functions from 1..n to S
Injections(n, S) == {f \in [1..n -> S] : \A i, j \in 1..n : f[i] = f[j] => i = j}

\* A page of the older snapshot and a normalized newer snapshot: its page
\* numbers differ, and so do its titles.
MatchInit ==
    /\ old_page \in [title : Titles, text : MatchTexts, raw : {"<pre>"}]
    /\ \E n \in 0..MaxCandidates :
         \E nrs \in Injections(n, 101..(100 + MaxCandidates)) :
           \E ts \in Injections(n, Titles) :
             \E txs \in [1..n -> MatchTexts] :
               page_map = [i \in 1..n |->
                   [key |-> nrs[i],
                    value |-> [title |-> ts[i], text |-> txs[i], raw |-> "<pre>"]]]
    /\ pagenr_match = NoPage
    /\ match_pc = "call"

FindMatch ==
    /\ match_pc = "call"
    /\ pagenr_match' = FindMatchingPage(old_page, page_map)
    /\ match_pc' = "returned"
    /\ UNCHANGED <<old_page, page_map>>

MatchNext == FindMatch /\ UNCHANGED <<wordVars, storeVars, normVars, optVars, diffVars, mainVars>>

MatchIdle ==
    /\ old_page = <<>>
    /\ page_map = <<>>
    /\ pagenr_match = NoPage
    /\ match_pc = "idle"

\* C1: for a page whose title is not one of the Kort nieuws titles, when a
\* candidate has exactly that title, find_matching_page returns that
\* candidate's page number, whatever the overlap of the other candidates
\* and wherever they come in the snapshot.
C1_ExactTitleTakesPriority ==
    (match_pc = "returned" /\ ~IsKortNieuws(old_page.title)) =>
        \A i \in 1..Len(page_map) :
            page_map[i].value.title = old_page.title => pagenr_match = page_map[i].key

\* Whether (at least) 90% of the words of two texts are the same: twice the
\* sum over the shared words of the smaller count, against all the words.
Reaches90(t1, t2) ==
    LET m1 == GenerateWordMap(t1)
        m2 == GenerateWordMap(t2)
    IN  2 * SumMin(m1, m2, DOMAIN m1 \cap DOMAIN m2) * 100 >=
            90 * (SumCounts(m1, DOMAIN m1) + SumCounts(m2, DOMAIN m2))

\* No candidate is taken for its title: the page has one of the Kort nieuws
\* titles, or no candidate has the page's title.
NoTitleShortcut ==
    \/ IsKortNieuws(old_page.title)
    \/ \A i \in 1..Len(page_map) : page_map[i].value.title # old_page.title

\* C14: when no candidate is taken for its title, find_matching_page returns
\* the first candidate, in the order of the snapshot, whose text reaches 90%
\* overlap with the page's text, also when a later candidate overlaps more,
\* and None when no candidate reaches 90%.
C14_FirstSufficientOverlap ==
    (match_pc = "returned" /\ NoTitleShortcut) =>
        LET enough == {i \in 1..Len(page_map) :
                          Reaches90(old_page.text, page_map[i].value.text)}
        IN  IF enough = {}
            THEN pagenr_match = NoPage
            ELSE \E i \in enough :
                    /\ \A j \in enough : i <= j
                    /\ pagenr_match = page_map[i].key

\* The first candidate overlaps for 94%, the second one for 100%: the
\* first one is returned.
C14_Witness ==
    /\ match_pc = "returned"
    /\ NoTitleShortcut
    /\ Len(page_map) = 2
    /\ old_page.text = TextTen
    /\ page_map[1].value.text = TextNine
    /\ page_map[2].value.text = TextTen
    /\ pagenr_match = page_map[1].key

-----------------------------------------------------------------------------
\* remove_extra_spaces and generate_diff
\*
\* A text is a sequence of characters and a line list a sequence of lines.

\* the characters str.rstrip() takes off the end of a line
IsSpace(c) == c \in {" ", "\t", "\n", "\r", "\f"}

\* line.rstrip()
RECURSIVE RStrip(_)
RStrip(line) ==
    IF line = <<>> THEN <<>>
    ELSE IF IsSpace(line[Len(line)]) THEN RStrip(SubSeq(line, 1, Len(line) - 1))
    ELSE line

\* text.split("\n"), from character i on, with the line cur begun
RECURSIVE SplitLinesFrom(_, _, _)
SplitLinesFrom(text, i, cur) ==
    IF i > Len(text) THEN <<cur>>
    ELSE IF text[i] = "\n" THEN <<cur>> \o SplitLinesFrom(text, i + 1, <<>>)
    ELSE SplitLinesFrom(text, i + 1, Append(cur, text[i]))

SplitLines(text) == SplitLinesFrom(text, 1, <<>>)

\* list.reverse()
Reverse(s) == [i \in 1..Len(s) |-> s[Len(s) + 1 - i]]

\* the loop of remove_extra_spaces over the reversed lines, from line i on
RECURSIVE RemoveExtraSpacesFrom(_, _, _, _)
RemoveExtraSpacesFrom(lines, i, do_add, result) ==
    IF i > Len(lines) THEN result
    ELSE LET line == RStrip(lines[i])
             add == do_add \/ Len(line) > 0
         IN  RemoveExtraSpacesFrom(lines, i + 1, add,
                                   IF add THEN Append(result, line) ELSE result)

\* A variant that leaves out every empty line, wherever it is.
RemoveExtraSpacesEveryEmptyLine(lines) ==
    SelectSeq([i \in 1..Len(lines) |-> RStrip(lines[i])], LAMBDA line : Len(line) > 0)

\* remove_extra_spaces
RemoveExtraSpaces(lines) ==
    Reverse(RemoveExtraSpacesFrom(Reverse(lines), 1, FALSE, <<>>))

\* The number of lines two line lists begin with in common, and, of what
\* comes after those, the number they end with in common.
RECURSIVE CommonPrefix(_, _, _)
CommonPrefix(l1, l2, n) ==
    IF n < Len(l1) /\ n < Len(l2) /\ l1[n + 1] = l2[n + 1]
    THEN CommonPrefix(l1, l2, n + 1) ELSE n

RECURSIVE CommonSuffix(_, _, _, _)
CommonSuffix(l1, l2, p, n) ==
    IF p + n < Len(l1) /\ p + n < Len(l2) /\ l1[Len(l1) - n] = l2[Len(l2) - n]
    THEN CommonSuffix(l1, l2, p, n + 1) ELSE n

DiffLine(kind, line) == [kind |-> kind, line |-> line]

\* difflib.unified_diff(list1, list2, "Vorige versie", "Huidige versie",
\* ..., n=1, lineterm=""): nothing at all for two equal lists; otherwise the
\* two header lines and at least one hunk.  The hunks are modelled as one
\* hunk from the first to the last line that differs, with one line of
\* context on either side.
UnifiedDiff(l1, l2) ==
    IF l1 = l2 THEN <<>>
    ELSE LET p == CommonPrefix(l1, l2, 0)
             s == CommonSuffix(l1, l2, p, 0)
             before == IF p > 0 THEN <<DiffLine(" ", l1[p])>> ELSE <<>>
             after == IF s > 0 THEN <<DiffLine(" ", l1[Len(l1) - s + 1])>> ELSE <<>>
             removed == [i \in 1..(Len(l1) - s - p) |-> DiffLine("-", l1[p + i])]
             added == [i \in 1..(Len(l2) - s - p) |-> DiffLine("+", l2[p + i])]
         IN  <<DiffLine("---", "Vorige versie"), DiffLine("+++", "Huidige versie"),
               DiffLine("@@", <<>>)>>
             \o before \o removed \o added \o after

\* generate_diff: the two cleaned line lists and the lines of the diff, which
\* the code joins with "\n"
GenerateDiff(t1, t2) ==
    LET l1 == RemoveExtraSpaces(SplitLines(t1))
        l2 == RemoveExtraSpaces(SplitLines(t2))
    IN  [list1 |-> l1, list2 |-> l2, udiff |-> UnifiedDiff(l1, l2)]

\* The characters of the modelled texts
DiffChars == {"x", " ", "\n"}

NoDiff == <<>>

DiffInit ==
    /\ \E n \in 0..MaxTextLen : \E t \in [1..n -> DiffChars] : text1 = t
    /\ \E n \in 0..MaxTextLen : \E t \in [1..n -> DiffChars] : text2 = t
    /\ list1 = <<>>
    /\ list2 = <<>>
    /\ udiff = NoDiff
    /\ diff_pc = "call"

Diff ==
    /\ diff_pc = "call"
    /\ LET d == GenerateDiff(text1, text2)
       IN  /\ list1' = d.list1
           /\ list2' = d.list2
           /\ udiff' = d.udiff
    /\ diff_pc' = "returned"
    /\ UNCHANGED <<text1, text2>>

DiffNext == Diff /\ UNCHANGED <<wordVars, storeVars, normVars, optVars, matchVars, mainVars>>

DiffIdle ==
    /\ text1 = <<>>
    /\ text2 = <<>>
    /\ list1 = <<>>
    /\ list2 = <<>>
    /\ udiff = NoDiff
    /\ diff_pc = "idle"

\* the hunks of a diff
Hunks(d) == {i \in 1..Len(d) : d[i].kind = "@@"}

\* The lines of a text with the whitespace taken off the end of every line,
\* up to the last line that is then not empty.
StrippedLines(text) == [i \in 1..Len(SplitLines(text)) |-> RStrip(SplitLines(text)[i])]

LastNonEmpty(lines) ==
    LET ne == {i \in 1..Len(lines) : lines[i] # <<>>}
    IN  IF ne = {} THEN 0 ELSE CHOOSE i \in ne : \A j \in ne : j <= i

CleanLines(text) == SubSeq(StrippedLines(text), 1, LastNonEmpty(StrippedLines(text)))

\* C11: generate_diff compares the lines of the two texts with the
\* whitespace taken off the end of every line and with the empty lines at
\* the end dropped, and only those: the empty lines before the last
\* non-empty line are kept.  Two texts that are equal in that form give a
\* diff with no hunks.
C11_EqualCleanLinesNoHunks ==
    diff_pc = "returned" =>
        /\ list1 = CleanLines(text1)
        /\ list2 = CleanLines(text2)
        /\ (CleanLines(text1) = CleanLines(text2) => Hunks(udiff) = {})

\* "x\n\n\n" against "x\n": no hunks
C11_Witness ==
    /\ diff_pc = "returned"
    /\ text1 = <<"x", "\n", "\n", "\n">>
    /\ text2 = <<"x", "\n">>
    /\ Hunks(udiff) = {}

\* an empty line before the last non-empty line is kept, and shows in the diff
C11_WitnessInnerEmptyLine ==
    /\ diff_pc = "returned"
    /\ text1 = <<"x", "\n", "\n", "x">>
    /\ text2 = <<"x", "\n", "x">>
    /\ Hunks(udiff) # {}

-----------------------------------------------------------------------------
\* main: the requests to the Mastodon server
\*
\* Every request gets a response.  A response with a status below 400
\* carries what was asked for; one with a status of 400 or more carries
\* Mastodon's error document, {"error": ...}, which is JSON and has no 'id'
\* and no 'media_attachments'.

\* The statuses of the responses
Statuses == {200, 500}

\* result_status = "<unknown>", of a dry run
UnknownStatus == -1

\* result_status = "<?>", the value before any request
NoStatus == -2

\* post_id = "<unknown>", of a dry run
UnknownId == -1

\* A request as the server sees it: what is asked, the status it is about
\* (NoId when None or when there is none), the status it replies to, and
\* the status of the response.
Request(req, post_id, reply_to, status) ==
    [req |-> req, post_id |-> post_id, reply_to |-> reply_to, status |-> status]

\* What a function that sends requests comes to: the requests sent, how it
\* ended ("ok", "exit1" for sys.exit(1), "raised" for the KeyError of
\* json.loads(result.data)['id']), and the post id and status it returns.
Outcome(reqs, end, post_id, status) ==
    [reqs |-> reqs, end |-> end, post_id |-> post_id, status |-> status]

\* generate_attachment and generate_diff_attachment: one upload
Upload(status) == Request("POST /api/v2/media", NoId, NoId, status)

\* create_post, with the statuses r of the responses and the id the server
\* gives the new status
CreatePost(r, new_id) ==
    IF r[1] >= 400
    THEN Outcome(<<Upload(r[1])>>, "exit1", NoId, NoStatus)
    ELSE LET post == Request("POST /api/v1/statuses", NoId, NoId, r[2])
         IN  IF r[2] >= 400
             THEN Outcome(<<Upload(r[1]), post>>, "raised", NoId, NoStatus)
             ELSE Outcome(<<Upload(r[1]), post>>, "ok", new_id, NoStatus)

\* get_media_data: one request; an error document has no
\* 'media_attachments', and the list is then empty
GetMediaData(post_id, status) == Request("GET /api/v1/statuses/id", post_id, NoId, status)

\* create_update
CreateUpdate(r, post_id, text_equal, new_id) ==
    IF text_equal
    THEN Outcome(<<GetMediaData(post_id, r[1]),
                   Request("PUT /api/v1/statuses/id", post_id, NoId, r[2])>>,
                 "ok", post_id, r[2])
    ELSE IF r[1] >= 400
    THEN Outcome(<<Upload(r[1])>>, "exit1", NoId, NoStatus)
    ELSE IF r[2] >= 400
    THEN Outcome(<<Upload(r[1]), Upload(r[2])>>, "exit1", NoId, NoStatus)
    ELSE LET post == Request("POST /api/v1/statuses", NoId, post_id, r[3])
         IN  IF r[3] >= 400
             THEN Outcome(<<Upload(r[1]), Upload(r[2]), post>>, "raised", NoId, NoStatus)
             ELSE Outcome(<<Upload(r[1]), Upload(r[2]), post>>, "ok", new_id, r[3])

\* mark_deleted
MarkDeleted(r, post_id) ==
    Outcome(<<GetMediaData(post_id, r[1]),
              Request("PUT /api/v1/statuses/id", post_id, NoId, r[2])>>,
            "ok", post_id, r[2])

-----------------------------------------------------------------------------
\* main

\* load_post_state: the content of the state file, {} when there is none
LoadPostState(file) == IF file.exists THEN file.data ELSE EmptyDict

\* save_post_state: json.dumps writes the keys, which are strings, and the
\* ids as they are
SavePostState(st) == [exists |-> TRUE, data |-> st]

\* The state after a page that has left: cleared also in a dry run
DeletedStateAlwaysClears(st, dryrun, title, pagenr) == ClearState(st, title, pagenr)

\* The state after a page that has left: never cleared
DeletedStateNeverClears(st, dryrun, title, pagenr) == st

\* The state after a page that has left
DeletedState(st, dryrun, title, pagenr) ==
    IF dryrun THEN st ELSE ClearState(st, title, pagenr)

\* The state after an update, with the two calls in the other order
ChangedStateSetFirst(st, title, pagenr, new_title, new_pagenr, post_id) ==
    ClearState(SetState(st, new_title, new_pagenr, post_id), title, pagenr)

\* The state after create_update: clear_state, then set_state
ChangedState(st, title, pagenr, new_title, new_pagenr, post_id) ==
    SetState(ClearState(st, title, pagenr), new_title, new_pagenr, post_id)

\* What the last loop step made of its page
NoLast == [class |-> "none", pagenr |-> NoPage, title |-> "", match |-> NoPage,
           post_id |-> NoId, ncalls |-> 0]

\* What a loop step made of a page: its class, the page's number and, for a
\* page of the older snapshot, the number of the page it was matched with
Classified(class, pagenr, match) == [class |-> class, pagenr |-> pagenr, match |-> match]

\* The pages of the snapshots of main: two titles, two page numbers, the
\* words "a b", the same words as "B a", and other words.
MainLines == { << <<"a", " ", "b">> >>, << <<"B", " ", "a">> >>, << <<"c">> >> }

MainEntries ==
    [title : {"Weer", "Kort nieuws binnenland"}, pagenr : PageNrs,
     lines : MainLines, raw : {"<pre>"}]

\* The snapshots as walk_pages.py writes them: every page number once.  Here
\* all pages are under one index page.
MainSnapshots ==
    {<<>>} \cup {<<es>> : es \in {f \in UNION {[1..n -> MainEntries] : n \in 1..Cardinality(PageNrs)} :
                                    \A i, j \in 1..Len(f) : f[i].pagenr = f[j].pagenr => i = j}}

\* The state files of main: none, and one with a post for one page of
\* either title.
SomeKnown == ("Weer" :> ("101" :> 1)) @@ ("Kort nieuws binnenland" :> ("102" :> MaxId))

MainStateFiles ==
    {[exists |-> FALSE, data |-> EmptyDict], [exists |-> TRUE, data |-> SomeKnown]}

\* main is modelled from the return of parse_options on: the options are
\* valid, and --server and --token are given.
MainInit ==
    /\ pc = "start"
    /\ opts \in [dryrun : BOOLEAN, post : BOOLEAN]
    /\ state_file \in MainStateFiles
    /\ prev_json \in MainSnapshots
    /\ next_json \in MainSnapshots
    /\ state = EmptyDict
    /\ state_op = NoOp
    /\ loaded = EmptyDict
    /\ prev_list = <<>>
    /\ next_list = <<>>
    /\ pos = 1
    /\ new_pos = 1
    /\ calls = <<>>
    /\ last_id = MaxId
    /\ pages_del = <<>>
    /\ pages_alt = <<>>
    /\ pages_new = <<>>
    /\ last = NoLast
    /\ history = <<>>

\* main, to the first loop: the state is loaded, the snapshots normalized.
Start ==
    /\ pc = "start"
    /\ state' = LoadPostState(state_file)
    /\ loaded' = LoadPostState(state_file)
    /\ LET p == NormalizeData(prev_json)
           n == NormalizeData(next_json)
       IN  IF p.error \/ n.error
           THEN pc' = "raised" /\ UNCHANGED <<prev_list, next_list>>
           ELSE pc' = "running" /\ prev_list' = p.result /\ next_list' = n.result
    /\ UNCHANGED <<opts, state_file, prev_json, next_json, pos, new_pos, calls, last_id,
                   pages_del, pages_alt, pages_new, last, history, state_op>>
    /\ UNCHANGED <<wordVars, normVars, optVars, matchVars, diffVars>>

\* A loop step that a request ends: sys.exit(1) or an exception.
Abort(out, class, pagenr, title, found, post_id) ==
    /\ pc' = out.end
    /\ calls' = calls \o out.reqs
    /\ last' = [class |-> class, pagenr |-> pagenr, title |-> title, match |-> found,
                post_id |-> post_id, ncalls |-> Len(calls)]
    /\ UNCHANGED <<state, next_list, pos, new_pos, last_id, pages_del, pages_alt, pages_new,
                   history>>

\* The first loop, for a page without a match: the page has left.
PageDeleted(r, pagenr, pagedata) ==
    LET post_id == GetState(state, pagedata.title, pagenr)
        out == IF opts.dryrun THEN Outcome(<<>>, "ok", post_id, UnknownStatus)
               ELSE MarkDeleted(r, post_id)
    IN  /\ calls' = calls \o out.reqs
        /\ state' = DeletedState(state, opts.dryrun, pagedata.title, pagenr)
        /\ pages_del' = Append(pages_del, [pagenr |-> pagenr, title |-> pagedata.title,
                                           post_id |-> post_id, status |-> out.status])
        /\ last' = [class |-> "Deleted", pagenr |-> pagenr, title |-> pagedata.title,
                    match |-> NoPage, post_id |-> post_id, ncalls |-> Len(calls)]
        /\ history' = Append(history, Classified("Deleted", pagenr, NoPage))
        /\ pos' = pos + 1
        /\ UNCHANGED <<pc, next_list, new_pos, last_id, pages_alt, pages_new>>

\* An unchanged page whose match stays in the newer snapshot
PageUnchangedKeepsMatch(pagenr, pagedata, found) ==
    /\ last' = [class |-> "Unchanged", pagenr |-> pagenr, title |-> pagedata.title,
                match |-> found, post_id |-> NoId, ncalls |-> Len(calls)]
    /\ history' = Append(history, Classified("Unchanged", pagenr, found))
    /\ pos' = pos + 1
    /\ UNCHANGED <<pc, state, next_list, new_pos, calls, last_id, pages_del, pages_alt,
                   pages_new>>

\* The first loop, for a page matched by one with the same number, title
\* and text.
PageUnchanged(pagenr, pagedata, found) ==
    /\ next_list' = DictDel(next_list, found)
    /\ last' = [class |-> "Unchanged", pagenr |-> pagenr, title |-> pagedata.title,
                match |-> found, post_id |-> NoId, ncalls |-> Len(calls)]
    /\ history' = Append(history, Classified("Unchanged", pagenr, found))
    /\ pos' = pos + 1
    /\ UNCHANGED <<pc, state, new_pos, calls, last_id, pages_del, pages_alt, pages_new>>

\* The first loop, for a page matched by one that differs from it.
PageChanged(r, pagenr, pagedata, found) ==
    LET new_page == Lookup(next_list, found)
        post_id == GetState(state, pagedata.title, pagenr)
        text_equal == pagedata.text = new_page.text
        out == IF post_id # NoId
               THEN IF opts.dryrun THEN Outcome(<<>>, "ok", post_id, UnknownStatus)
                    ELSE CreateUpdate(r, post_id, text_equal, last_id + 1)
               ELSE IF opts.dryrun THEN Outcome(<<>>, "ok", UnknownId, NoStatus)
                    ELSE CreatePost(r, last_id + 1)
        changed == (IF pagedata.title = new_page.title THEN {} ELSE {"title"})
                   \cup (IF text_equal THEN {} ELSE {"content"})
    IN  IF out.end # "ok"
        THEN Abort(out, "Changed", pagenr, pagedata.title, found, post_id)
        ELSE
        /\ calls' = calls \o out.reqs
        /\ last_id' = IF out.post_id > last_id THEN out.post_id ELSE last_id
        /\ state' = IF opts.dryrun THEN state
                    ELSE IF post_id # NoId
                    THEN ChangedState(state, pagedata.title, pagenr,
                                      new_page.title, found, out.post_id)
                    ELSE SetState(state, new_page.title, found, out.post_id)
        /\ pages_alt' = Append(pages_alt,
                               [pagenr |-> pagenr, match |-> found, title |-> pagedata.title,
                                new_title |-> new_page.title, changed |-> changed,
                                post_id |-> out.post_id, status |-> out.status])
        /\ next_list' = DictDel(next_list, found)
        /\ last' = [class |-> "Changed", pagenr |-> pagenr, title |-> pagedata.title,
                    match |-> found, post_id |-> post_id, ncalls |-> Len(calls)]
        /\ history' = Append(history, Classified("Changed", pagenr, found))
        /\ pos' = pos + 1
        /\ UNCHANGED <<pc, new_pos, pages_del, pages_new>>

\* One step of the loop over the older snapshot.
ProcessPrev ==
    /\ pc = "running"
    /\ pos <= Len(prev_list)
    /\ \E r \in [1..3 -> Statuses] :
         LET pagenr == prev_list[pos].key
             pagedata == prev_list[pos].value
             found == FindMatchingPage(pagedata, next_list)
         IN  IF found = NoPage
             THEN PageDeleted(r, pagenr, pagedata)
             ELSE IF /\ pagenr = found
                     /\ pagedata.title = Lookup(next_list, found).title
                     /\ pagedata.text = Lookup(next_list, found).text
                  THEN PageUnchanged(pagenr, pagedata, found)
                  ELSE PageChanged(r, pagenr, pagedata, found)
    /\ UNCHANGED <<opts, state_file, loaded, prev_json, next_json, prev_list, state_op>>
    /\ UNCHANGED <<wordVars, normVars, optVars, matchVars, diffVars>>

\* One step of the loop over what is left of the newer snapshot.
ProcessNew ==
    /\ pc = "running"
    /\ pos > Len(prev_list)
    /\ new_pos <= Len(next_list)
    /\ \E r \in [1..2 -> Statuses] :
         LET pagenr == next_list[new_pos].key
             pagedata == next_list[new_pos].value
             out == IF ~opts.post THEN Outcome(<<>>, "ok", NoId, NoStatus)
                    ELSE IF opts.dryrun THEN Outcome(<<>>, "ok", UnknownId, NoStatus)
                    ELSE CreatePost(r, last_id + 1)
         IN  IF out.end # "ok"
             THEN Abort(out, "New", pagenr, pagedata.title, NoPage, NoId)
             ELSE
             /\ calls' = calls \o out.reqs
             /\ last_id' = IF out.post_id > last_id THEN out.post_id ELSE last_id
             /\ state' = IF opts.post /\ ~opts.dryrun
                         THEN SetState(state, pagedata.title, pagenr, out.post_id)
                         ELSE state
             /\ pages_new' = Append(pages_new, [pagenr |-> pagenr, title |-> pagedata.title,
                                                post_id |-> out.post_id])
             /\ last' = [class |-> "New", pagenr |-> pagenr, title |-> pagedata.title,
                         match |-> NoPage, post_id |-> NoId, ncalls |-> Len(calls)]
             /\ history' = Append(history, Classified("New", pagenr, NoPage))
             /\ new_pos' = new_pos + 1
             /\ UNCHANGED <<pc, next_list, pos, pages_del, pages_alt>>
    /\ UNCHANGED <<opts, state_file, loaded, prev_json, next_json, prev_list, state_op>>
    /\ UNCHANGED <<wordVars, normVars, optVars, matchVars, diffVars>>

\* The end of main: the report is printed and the state saved.
Finish ==
    /\ pc = "running"
    /\ pos > Len(prev_list)
    /\ new_pos > Len(next_list)
    /\ state_file' = SavePostState(state)
    /\ pc' = "done"
    /\ UNCHANGED <<opts, state, state_op, loaded, prev_json, next_json, prev_list, next_list,
                   pos, new_pos, calls, last_id, pages_del, pages_alt, pages_new, last,
                   history>>
    /\ UNCHANGED <<wordVars, normVars, optVars, matchVars, diffVars>>

MainIdle ==
    /\ pc = "idle"
    /\ opts = <<>>
    /\ state_file = <<>>
    /\ loaded = <<>>
    /\ prev_json = <<>>
    /\ next_json = <<>>
    /\ prev_list = <<>>
    /\ next_list = <<>>
    /\ pos = 0
    /\ new_pos = 0
    /\ calls = <<>>
    /\ last_id = 0
    /\ pages_del = <<>>
    /\ pages_alt = <<>>
    /\ pages_new = <<>>
    /\ last = NoLast
    /\ history = <<>>

-----------------------------------------------------------------------------
\* Claims about main

Aborted == pc \in {"exit1", "raised"}

\* The requests of the last loop step
LastReqs == SubSeq(calls, last.ncalls + 1, Len(calls))

\* C2: a response with a status of 400 or more ends the run at once: the
\* request it answers is the last one sent, and the run does not go on to
\* save the state.
C2_FailureStatusAborts ==
    \A i \in 1..Len(calls) :
        calls[i].status >= 400 => (i = Len(calls) /\ Aborted)

\* C3: a dry run sends no request and leaves the post state as loaded, so
\* the state saved at the end is the state loaded at the start.
C3_DryRunChangesNothing ==
    (pc # "idle" /\ opts.dryrun) =>
        /\ calls = <<>>
        /\ pc # "start" => state = loaded
        /\ pc = "done" => state_file = [exists |-> TRUE, data |-> loaded]

\* A dry run that has ended, after a page that has left and whose post is
\* known.
C3_Witness ==
    /\ pc = "done"
    /\ opts.dryrun
    /\ Len(pages_del) > 0
    /\ pages_del[1].post_id # NoId
    /\ state_file.data = SomeKnown

\* C4: not in a dry run, after a changed page (T, N) with a known post R has
\* been handled with its match (T', N'): the state has an entry at
\* (T', N') and, unless the two keys are the same, none at (T, N); with
\* equal texts R is updated in place, no status is created, and the entry
\* holds R; with different texts a status is created in reply to R, R is
\* not edited, and the entry holds the new status's id.
C4_ChangedWithKnownPost ==
    (pc = "running" /\ last.class = "Changed" /\ ~opts.dryrun /\ last.post_id # NoId) =>
        LET new_title == pages_alt[Len(pages_alt)].new_title
            text_equal == "content" \notin pages_alt[Len(pages_alt)].changed
            entry == GetState(state, new_title, last.match)
            puts == {i \in 1..Len(LastReqs) : LastReqs[i].req = "PUT /api/v1/statuses/id"}
            posts == {i \in 1..Len(LastReqs) : LastReqs[i].req = "POST /api/v1/statuses"}
        IN  /\ HasEntry(state, new_title, last.match)
            /\ (<<last.title, last.pagenr>> # <<new_title, last.match>>) =>
                   ~HasEntry(state, last.title, last.pagenr)
            /\ text_equal =>
                   /\ posts = {}
                   /\ \E i \in puts : LastReqs[i].post_id = last.post_id
                   /\ entry = last.post_id
            /\ ~text_equal =>
                   /\ puts = {}
                   /\ Cardinality(posts) = 1
                   /\ \A i \in posts : LastReqs[i].reply_to = last.post_id
                   /\ entry # last.post_id
                   /\ entry = last_id
                   /\ entry \notin {calls[i].post_id : i \in 1..last.ncalls}

\* A page that moved from 101 to 102 with its title and text: updated in
\* place.
C4_Witness ==
    /\ pc = "running"
    /\ last.class = "Changed"
    /\ ~opts.dryrun
    /\ last.post_id = 1
    /\ last.title = "Weer" /\ last.pagenr = 101 /\ last.match = 102
    /\ pages_alt[Len(pages_alt)].changed = {}
    /\ GetState(state, "Weer", 102) = 1
    /\ GetState(state, "Weer", 101) = NoId

\* C5: a page without a match is reported as deleted, in a dry run too, and
\* not in a dry run the state has no entry for it afterwards.
C5_DeletedReportedAndCleared ==
    (pc # "idle" /\ last.class = "Deleted") =>
        /\ Len(pages_del) > 0
        /\ pages_del[Len(pages_del)].pagenr = last.pagenr
        /\ pages_del[Len(pages_del)].title = last.title
        /\ ~opts.dryrun => ~HasEntry(state, last.title, last.pagenr)

\* Not in a dry run, a page with a known post has left.
C5_Witness ==
    /\ last.class = "Deleted"
    /\ ~opts.dryrun
    /\ last.post_id # NoId
    /\ HasEntry(loaded, last.title, last.pagenr)
    /\ ~HasEntry(state, last.title, last.pagenr)

\* The newer snapshot as normalized, before the first loop takes pages out
NextNormalized == NormalizeData(next_json).result

\* The loop steps over the older and over the newer snapshot
OlderSteps == 1..(IF Len(history) < Len(prev_list) THEN Len(history) ELSE Len(prev_list))

NewerSteps == (Len(prev_list) + 1)..Len(history)

\* C12: a page of the newer snapshot that an older page was matched with is
\* out of the working set from that step on.  In a run that completes, every
\* page of the older snapshot is classified once, as Deleted, Unchanged or
\* Changed, and every page of the newer snapshot is either matched by
\* exactly one older page or classified New, never both and never neither.
C12_ClassificationIsPartition ==
    /\ \A i \in 1..Len(history) :
          history[i].match # NoPage => ~HasKey(next_list, history[i].match)
    /\ pc = "done" =>
          /\ Len(history) >= Len(prev_list)
          /\ \A i \in OlderSteps :
                /\ history[i].pagenr = prev_list[i].key
                /\ history[i].class \in {"Deleted", "Unchanged", "Changed"}
                /\ history[i].class = "Deleted" <=> history[i].match = NoPage
          /\ \A i \in NewerSteps : history[i].class = "New"
          /\ \A k \in 1..Len(NextNormalized) :
                LET n == NextNormalized[k].key
                    matched == {i \in OlderSteps : history[i].match = n}
                    new == {i \in NewerSteps : history[i].pagenr = n}
                IN  Cardinality(matched) + Cardinality(new) = 1

\* A run that completes with a changed page, a page that has left and a new
\* page.
C12_Witness ==
    /\ pc = "done"
    /\ Len(history) = 3
    /\ history[1].class = "Changed"
    /\ history[2].class = "Deleted"
    /\ history[3].class = "New"

\* C15: without --post a run sends no request and leaves the post state as
\* loaded, for the pages that have left and the changed pages as for the
\* new ones.
C15_NoPostNoCalls ==
    ~opts.post => (calls = <<>> /\ state = loaded)

\* The requests that carry the id of a status: the GET and the PUT of a
\* status, and the POST of a reply
CarriesId(q) ==
    \/ q.req \in {"GET /api/v1/statuses/id", "PUT /api/v1/statuses/id"}
    \/ q.reply_to # NoId

\* C16: every request of mark_deleted and create_update carries the post id
\* the state held for the older page when the step began, and no such
\* request is sent for a page the state held no post id for.
C16_CallsCarryKnownId ==
    last.class \in {"Deleted", "Changed"} =>
        \A i \in 1..Len(LastReqs) :
            CarriesId(LastReqs[i]) =>
                /\ last.post_id # NoId
                /\ last.post_id \in {LastReqs[i].post_id, LastReqs[i].reply_to}

\* C17: a page of the older snapshot for which the newer snapshot has a
\* page with the same number, title and text is classified Unchanged, with
\* whatever other pages in whatever order.
C17_SamePageIsUnchanged ==
    \A i \in OlderSteps :
        (\E k \in 1..Len(NextNormalized) :
            /\ NextNormalized[k].key = prev_list[i].key
            /\ NextNormalized[k].value.title = prev_list[i].value.title
            /\ NextNormalized[k].value.text = prev_list[i].value.text)
        => history[i].class = "Unchanged"

-----------------------------------------------------------------------------
\* Specifications

InitWords == WordsInit /\ StoreIdle /\ NormIdle /\ OptIdle /\ MatchIdle /\ MainIdle /\ DiffIdle

SpecWords == InitWords /\ [][WordsNext]_vars

InitStore == StoreInit /\ WordsIdle /\ NormIdle /\ OptIdle /\ MatchIdle /\ MainIdle /\ DiffIdle

SpecStore == InitStore /\ [][StoreNext]_vars

InitNormalize == NormInit /\ WordsIdle /\ StoreIdle /\ OptIdle /\ MatchIdle /\ MainIdle /\ DiffIdle

SpecNormalize == InitNormalize /\ [][NormNext]_vars

InitOptions == OptInit /\ WordsIdle /\ StoreIdle /\ NormIdle /\ MatchIdle /\ MainIdle /\ DiffIdle

SpecOptions == InitOptions /\ [][OptNext]_vars

InitMatch == MatchInit /\ WordsIdle /\ StoreIdle /\ NormIdle /\ OptIdle /\ MainIdle /\ DiffIdle

SpecMatch == InitMatch /\ [][MatchNext]_vars

InitDiff ==
    DiffInit /\ WordsIdle /\ StoreIdle /\ NormIdle /\ OptIdle /\ MatchIdle /\ MainIdle

SpecDiff == InitDiff /\ [][DiffNext]_vars

Init == MainInit /\ WordsIdle /\ NormIdle /\ OptIdle /\ MatchIdle /\ DiffIdle

Next == Start \/ ProcessPrev \/ ProcessNew \/ Finish

Spec == Init /\ [][Next]_vars

====
